---- MODULE Spec2Model ----
(***************************************************************************)
(* Model of the symbolic execution loop of greed / SEtaac:                 *)
(*   - SymbolicEVMState (state.py): construction, reset(), copy(), CFG     *)
(*     navigation                                                          *)
(*   - TAC_Jump / TAC_Jumpi (TAC_ops/flow_ops.py)                          *)
(*   - the solver probes and translate_xid of utils/z3.py                  *)
(*   - SimulationManager (sim_manager.py): stashes, move, step             *)
(*                                                                         *)
(* Python objects are modelled by identity: a state object is a key of     *)
(* `st`; the mutable containers a state points to (registers dict, ctx     *)
(* dict, callstack list, solver, ...) live in `heap` and are reached       *)
(* through the references st[k].ref, so that aliasing between a state and  *)
(* its copy is something the model can express.                            *)
(***************************************************************************)
EXTENDS Integers, Sequences, FiniteSets, TLC

\* ------------------------------------------------------------------ bounds
MaxUuid == 4        \* number of state objects ever allocated
MaxSteps == 3       \* number of step() calls of one run
MaxCopies == 2      \* number of copy() calls (SpecCopy)
MaxWrites == 2      \* number of container writes (SpecCopy)
MaxProbes == 2      \* number of stand-alone probe calls (SpecJumpi)
MaxRunSteps == 5    \* number of step() calls of one run() (SpecRun)
MaxXid == 2         \* execution ids in use (SpecState)
MaxBuilds == 2      \* number of states built, copied or reset (SpecState)

\* Bind(e, F) is F(e), with e evaluated once however often F uses it
Bind(e, F(_)) == CHOOSE y \in {F(x) : x \in {e}} : TRUE

\* ------------------------------------------------------------------ values
\* A register value is a Python int, a Python bool or a z3 bit-vector term.
IntV(n) == [k |-> "int", v |-> n]
BoolV(b) == [k |-> "bool", v |-> IF b THEN 1 ELSE 0]
SymV(i) == [k |-> "sym", v |-> i]

\* The symbolic variables: X (used as branch condition), Y (used as target).
X == 1
Y == 2
SymVars == {X, Y}

\* 256-bit values seen through the atoms `var == c` / `var != c`, c in {0,1}:
\* every value other than 0 and 1 behaves like 2.
Dom == 0 .. 2

\* isinstance(v, numbers.Number): ints and bools are numbers, z3 terms are not
concrete(v) == v.k \in {"int", "bool"}

\* `cond is True`: identity with the bool singleton; the int 1 is not True
IsPyTrue(v) == v.k = "bool" /\ v.v = 1

\* z3 terms built by the handlers: `cond == c` and z3.Not of it
Eq(val, c) == [x |-> val.v, eq |-> TRUE, c |-> c]
Not(atom) == [atom EXCEPT !.eq = ~ @]
Holds(atom, a) == IF atom.eq THEN a[atom.x] = atom.c ELSE a[atom.x] # atom.c

\* --------------------------------------------------------- z3.Solver object
\* z3 is incomplete: the assertion stacks on which check() gives up
VARIABLE gives_up

\* assertions: the assertion stack; scopes: its length at every open push
get_solver == [assertions |-> << >>, scopes |-> << >>]

push(s) == [s EXCEPT !.scopes = Append(@, Len(s.assertions))]

add(s, c) == [s EXCEPT !.assertions = Append(@, c)]

addAll(s, cs) == [s EXCEPT !.assertions = @ \o cs]

pop(s) ==
  LET n == s.scopes[Len(s.scopes)]
  IN [assertions |-> SubSeq(s.assertions, 1, n),
      scopes |-> SubSeq(s.scopes, 1, Len(s.scopes) - 1)]

Sat(cs) == \E a \in [SymVars -> Dom] : \A i \in 1 .. Len(cs) : Holds(cs[i], a)

\* Solver.check(): sat, unsat, or unknown when z3 gives up on the query
check(s) ==
  IF s.assertions \in gives_up THEN "unknown"
  ELSE IF Sat(s.assertions) THEN "sat" ELSE "unsat"

\* A probe that forgets to restore the solver (mutation of is_false).
is_false_nopop(cond, s) ==
  LET s2 == add(push(s), cond)
  IN [res |-> check(s2) = "unsat", s |-> s2]

\* utils/z3.py is_false: push, add, check() == unsat, pop
is_false(cond, s) ==
  LET s2 == add(push(s), cond)
  IN [res |-> check(s2) = "unsat", s |-> pop(s2)]

\* is_true that forgets the negation (mutation of is_true)
is_true_no_negation(cond, s) == is_false(cond, s)

\* utils/z3.py is_true: is_false(Not(cond)), i.e. cond is entailed
is_true(cond, s) == is_false(Not(cond), s)

is_unsat(cond, s) ==
  LET s2 == add(push(s), cond)
  IN [res |-> check(s2) = "unsat", s |-> pop(s2)]

is_sat(cond, s) ==
  LET s2 == add(push(s), cond)
  IN [res |-> check(s2) = "sat", s |-> pop(s2)]

\* ------------------------------------------------------- project: CFG
\* Statement ids are numbers; a block's id is the id of its first statement.
\*   block 1: 1 OTHER, 2 JUMPI(cond, dest)   succ 3, 4   fallthrough 4
\*   block 3: 3 JUMP(dest)                   succ 5
\*   block 4: 4 OTHER                        succ 5
\*   block 5: 5 OTHER                        no successor
NoPc == 0           \* Python None
BadPc == 7          \* a number that is no statement id
SymPc == 9          \* a symbolic term stored in pc
StmtIds == 1 .. 5

Kind(id) ==
  CASE id = 2 -> "JUMPI"
    [] id = 3 -> "JUMP"
    [] OTHER -> "OTHER"

BlockOf(id) == IF id = 2 THEN 1 ELSE id

Statements(b) == IF b = 1 THEN << 1, 2 >> ELSE << b >>

Succ(b) ==
  CASE b = 1 -> << 3, 4 >>
    [] b = 3 -> << 5 >>
    [] b = 4 -> << 5 >>
    [] OTHER -> << >>

FallthroughEdge(b) == 4

\* project.factory.statement(pc): the statement object, None if there is none
statement(pc) == IF pc \in StmtIds THEN pc ELSE NoPc

\* ------------------------------------------------------- state objects
Fields ==
  {"registers", "ctx", "callstack", "returndata", "trace",
   "memory", "storage", "calldata", "solver"}

\* the containers whose copy is written out in SymbolicEVMState.copy
PlainFields == {"registers", "ctx", "callstack", "returndata", "trace"}

Read(w, k, f) == w.heap[w.st[k].ref[f]][f]

Constraints(w, k) == Read(w, k, "solver").constraints

WriteField(w, k, f, val) ==
  [w EXCEPT !.heap[w.st[k].ref[f]][f] = val]

\* state.constraints.append(c): appends to the list the solver plugin owns
AppendConstraint(w, k, c) ==
  [w EXCEPT !.heap[w.st[k].ref["solver"]]["solver"].constraints = Append(@, c)]

\* what the copy's reference for field f points to when the field is cloned
\* by LambdaMemory.copy / SimStatePlugin.copy: a new object owned by the copy
DeepRef(w, k, n, f) == n

\* the contents of a cloned container: equal to the original's; a cloned
\* solver carries the same constraints in a context of its own
DeepCopy(w, k, f) ==
  IF f = "solver"
  THEN [constraints |-> Constraints(w, k), disposed |-> 0]
  ELSE Read(w, k, f)

\* copy() that shares the register dict with the original (mutation of copy)
copy_shared_registers(w, k) ==
  LET n == w.next
      obj == [w.st[k] EXCEPT
                !.uuid = n,
                !.ref = [f \in Fields |->
                           IF f = "registers" THEN w.st[k].ref[f] ELSE n]]
  IN [st |-> (n :> obj) @@ w.st,
      heap |-> (n :> [f \in Fields |-> DeepCopy(w, k, f)]) @@ w.heap,
      next |-> n + 1]

\* copy() whose solver plugin is the original's (mutation of copy)
copy_shared_solver(w, k) ==
  LET n == w.next
      obj == [w.st[k] EXCEPT
                !.uuid = n,
                !.ref = [f \in Fields |->
                           IF f = "solver" THEN w.st[k].ref[f] ELSE n]]
  IN [st |-> (n :> obj) @@ w.st,
      heap |-> (n :> [f \in Fields |-> DeepCopy(w, k, f)]) @@ w.heap,
      next |-> n + 1]

\* SymbolicEVMState.copy: a new state object n with a fresh uuid, the scalar
\* fields assigned from self, dict(...)/list(...) copies of the plain
\* containers, clones of memory, storage, calldata and the plugins
copy(w, k) ==
  LET n == w.next
      obj == [w.st[k] EXCEPT
                !.uuid = n,
                !.ref = [f \in Fields |->
                           IF f \in PlainFields THEN n ELSE DeepRef(w, k, n, f)]]
  IN [st |-> (n :> obj) @@ w.st,
      heap |-> (n :> [f \in Fields |-> DeepCopy(w, k, f)]) @@ w.heap,
      next |-> n + 1]

\* --------------------------------------------------------- CFG navigation
IndexOf(seq, x) == CHOOSE i \in 1 .. Len(seq) : seq[i] = x

\* get_fallthrough_pc that takes the first successor of a block with several
\* successors (mutation)
get_fallthrough_pc_first_succ(pc) ==
  LET b == BlockOf(pc)
  IN CASE Len(Succ(b)) = 0 -> [raises |-> TRUE, pc |-> NoPc]
       [] OTHER -> [raises |-> FALSE, pc |-> Succ(b)[1]]

\* SymbolicEVMState.get_fallthrough_pc: raises VMNoSuccessors without successors
get_fallthrough_pc(pc) ==
  LET b == BlockOf(pc)
  IN CASE Len(Succ(b)) = 0 -> [raises |-> TRUE, pc |-> NoPc]
       [] Len(Succ(b)) = 1 -> [raises |-> FALSE, pc |-> Succ(b)[1]]
       [] OTHER -> [raises |-> FALSE, pc |-> FallthroughEdge(b)]

\* SymbolicEVMState.set_next_pc
set_next_pc(w, k) ==
  LET pc == w.st[k].pc
      stmts == Statements(BlockOf(pc))
      idx == IndexOf(stmts, pc)
      ft == get_fallthrough_pc(pc)
  IN IF idx < Len(stmts)
     THEN [w EXCEPT !.st[k].pc = stmts[idx + 1]]
     ELSE IF ft.raises
          THEN [w EXCEPT !.st[k].halt = TRUE]
          ELSE [w EXCEPT !.st[k].pc = ft.pc]

\* the value assigned to pc by `succ.pc = dest`
PcOf(val) == IF concrete(val) THEN val.v ELSE SymPc

\* --------------------------------------------------------------- handlers
\* A handler call yields the world after it, the returned successors and the
\* exception raised ("None" when it returned).
Returned(w, succ) == [w |-> w, succ |-> succ, exc |-> "None"]
Raised(w, e) == [w |-> w, succ |-> << >>, exc |-> e]

\* TAC_Jump.handle
TAC_Jump_handle(w, k) ==
  LET handle_(w1) ==
        LET succ == w.next
            dest == Read(w1, succ, "registers").dest
        IN IF ~ concrete(dest)
           THEN Raised(w1, "SymbolicError")
           ELSE Returned([w1 EXCEPT !.st[succ].pc = dest.v], << succ >>)
  IN Bind(copy(w, k), handle_)

\* `succ.pc = succ.next_statement()`: the state advances to the fallthrough
\* of the branch
next_statement(w, k) ==
  LET ft == get_fallthrough_pc(w.st[k].pc)
  IN IF ft.raises THEN Raised(w, "VMNoSuccessors")
     ELSE Returned([w EXCEPT !.st[k].pc = ft.pc], << k >>)

\* TAC_Jumpi.handler.  The result also carries the probe solver `s` as the
\* handler leaves it (get_solver when no probe ran).
TAC_Jumpi_handler(w, k) ==
  LET handler_(w1) ==
        LET succ == w.next
            dest == Read(w1, succ, "registers").dest
            cond == Read(w1, succ, "registers").cond
            s0 == addAll(get_solver, Constraints(w1, succ))
            p1 == is_true(Eq(cond, 1), s0)
            p2 == is_true(Eq(cond, 0), p1.s)
            sat_true == p1.res
            sat_false == p2.res
            \* fork: succ_true = succ.copy(); pc and constraint of succ_true
            \* are assigned before succ_false is touched
            succ_true == w1.next
            wt == AppendConstraint(
                    [copy(w1, succ) EXCEPT !.st[succ_true].pc = PcOf(dest)],
                    succ_true, Eq(cond, 1))
            noProbe(r) == [w |-> r.w, succ |-> r.succ, exc |-> r.exc,
                           probed |-> FALSE, s |-> get_solver]
            probe(r) == [w |-> r.w, succ |-> r.succ, exc |-> r.exc,
                         probed |-> TRUE, s |-> p2.s]
            \* succ_false.pc = succ.next_statement(); append cond == 0
            false_(ns) ==
              IF ns.exc # "None" THEN Raised(ns.w, ns.exc)
              ELSE Returned(AppendConstraint(ns.w, succ, Eq(cond, 0)),
                            << succ >>)
            fork_(nt) ==
              IF nt.exc # "None" THEN Raised(nt.w, nt.exc)
              ELSE Returned(AppendConstraint(nt.w, succ, Eq(cond, 0)),
                            << succ_true, succ >>)
        IN IF concrete(cond)
           THEN IF IsPyTrue(cond)
                THEN IF ~ concrete(dest)
                     THEN noProbe(Raised(w1, "SymbolicError"))
                     ELSE noProbe(Returned([w1 EXCEPT !.st[succ].pc = dest.v],
                                           << succ >>))
                ELSE noProbe(Bind(next_statement(w1, succ), LAMBDA r : r))
           ELSE IF sat_true /\ sat_false
                THEN probe(Bind(next_statement(wt, succ), fork_))
                ELSE IF sat_true
                     THEN IF ~ concrete(dest)
                          THEN probe(Raised(w1, "SymbolicError"))
                          ELSE probe(Returned(
                                 AppendConstraint(
                                   [w1 EXCEPT !.st[succ].pc = dest.v],
                                   succ, Eq(cond, 1)),
                                 << succ >>))
                     ELSE IF sat_false
                          THEN probe(Bind(next_statement(w1, succ), false_))
                          ELSE probe(Returned(w1, << >>))
  IN Bind(copy(w, k), handler_)

\* Every statement that is not a jump: advances the state in place and
\* returns it as the only successor.
Other_handle(w, k) == Returned(set_next_pc(w, k), << k >>)

\* state.curr_stmt.handle(state), the Statement interface: the step function
\* of the statement's class (TAC_Jumpi names it `handler`); the lookup on the
\* None of a pc without statement raises
handle(w, k) ==
  LET stmt == statement(w.st[k].pc)
  IN IF stmt = NoPc
     THEN Raised(w, "AttributeError")
     ELSE CASE Kind(stmt) = "JUMP" -> TAC_Jump_handle(w, k)
            [] Kind(stmt) = "JUMPI" ->
                 Bind(TAC_Jumpi_handler(w, k),
                      LAMBDA r : [w |-> r.w, succ |-> r.succ, exc |-> r.exc])
            [] OTHER -> Other_handle(w, k)

\* ------------------------------------------------------ SimulationManager
StashNames == {"active", "deadended", "found", "pruned", "unsat", "errored"}

\* single_step_state that drops the state whose handler raised (mutation)
single_step_state_drop(w, state) ==
  LET caught(r) ==
        IF r.exc = "None"
        THEN [w |-> r.w, successors |-> r.succ, raised |-> FALSE]
        ELSE [w |-> r.w, successors |-> << >>, raised |-> TRUE]
  IN Bind(handle(w, state), caught)

\* SimulationManager.single_step_state with no technique registered and no
\* inspect plugin: the handler's successors, or the state itself with error
\* and halt set when the handler raised
single_step_state(w, state) ==
  LET caught(r) ==
        IF r.exc = "None"
        THEN [w |-> r.w, successors |-> r.succ, raised |-> FALSE]
        ELSE [w |-> [r.w EXCEPT !.st[state].error = r.exc,
                                !.st[state].halt = TRUE],
              successors |-> << state >>, raised |-> TRUE]
  IN Bind(handle(w, state), caught)

\* list.remove(x): removes the first occurrence
RECURSIVE RemoveFirst(_, _)
RemoveFirst(seq, x) ==
  IF seq = << >> THEN << >>
  ELSE IF Head(seq) = x THEN Tail(seq)
       ELSE << Head(seq) >> \o RemoveFirst(Tail(seq), x)

\* the loop of move over the snapshot list(self.stashes[from_stash]);
\* `sel` is the set of states on which filter_func is true
RECURSIVE moveLoop(_, _, _, _, _, _)
moveLoop(stashes, snapshot, i, from_stash, to_stash, sel) ==
  IF i > Len(snapshot) THEN stashes
  ELSE LET s == snapshot[i]
           nxt == IF s \in sel
                  THEN [stashes EXCEPT
                          ![from_stash] = RemoveFirst(@, s),
                          ![to_stash] = Append(@, s)]
                  ELSE stashes
       IN Bind(nxt, LAMBDA n :
            moveLoop(n, snapshot, i + 1, from_stash, to_stash, sel))

\* move that appends to the destination but leaves the source alone (mutation)
move_keep(stashes, from_stash, to_stash, sel) ==
  [stashes EXCEPT ![to_stash] =
     @ \o SelectSeq(stashes[from_stash], LAMBDA s : s \in sel)]

\* move that puts the moved states in front of the destination (mutation)
move_prepend(stashes, from_stash, to_stash, sel) ==
  [stashes EXCEPT
     ![from_stash] = SelectSeq(@, LAMBDA s : s \notin sel),
     ![to_stash] = SelectSeq(stashes[from_stash], LAMBDA s : s \in sel) \o @]

\* SimulationManager.move
move(stashes, from_stash, to_stash, sel) ==
  Bind(stashes, LAMBDA b :
    moveLoop(b, b[from_stash], 1, from_stash, to_stash, sel))

\* the loop `for state in self.active: new_active += single_step_state(state)`
\* acc: the world so far, new_active, the states whose handler raised,
\* whether a handler was entered with a halted state, the states handed to
\* single_step_state in call order and the successors each call returned
RECURSIVE stepLoop_skip(_, _, _)
RECURSIVE stepLoop(_, _, _)
\* the loop losing every other state of the list it iterates (mutation)
stepLoop_skip(acc, active, i) ==
  IF i > Len(active) THEN acc
  ELSE LET collect(r) ==
             [w |-> r.w,
              new_active |-> acc.new_active \o r.successors,
              raised |-> IF r.raised THEN acc.raised \cup {active[i]}
                         ELSE acc.raised,
              sawHalted |-> acc.sawHalted \/ acc.w.st[active[i]].halt,
              handled |-> Append(acc.handled, active[i]),
              succs |-> Append(acc.succs, r.successors)]
       IN Bind(Bind(single_step_state(acc.w, active[i]), collect),
               LAMBDA a : stepLoop_skip(a, active, i + 2))

stepLoop(acc, active, i) ==
  IF i > Len(active) THEN acc
  ELSE LET collect(r) ==
             [w |-> r.w,
              new_active |-> acc.new_active \o r.successors,
              raised |-> IF r.raised THEN acc.raised \cup {active[i]}
                         ELSE acc.raised,
              sawHalted |-> acc.sawHalted \/ acc.w.st[active[i]].halt,
              handled |-> Append(acc.handled, active[i]),
              succs |-> Append(acc.succs, r.successors)]
       IN Bind(Bind(single_step_state(acc.w, active[i]), collect),
               LAMBDA a : stepLoop(a, active, i + 1))

\* find / prune are predicates on the pc: the set of pcs they accept
Accepts(w, pcs) == {k \in DOMAIN w.st : w.st[k].pc \in pcs}

\* s.solver.is_sat()
solver_is_sat(w, k) == Sat(Constraints(w, k))

Unsat(w) == {k \in DOMAIN w.st : ~ solver_is_sat(w, k)}

\* re-binning that forgets the deadended move (mutation)
rebin_no_deadended(w, stashes, find, prune, lazy) ==
  LET m1 == move(stashes, "active", "found", Accepts(w, find))
      m2 == move(m1, "active", "errored",
                 {k \in DOMAIN w.st : w.st[k].error # "None"})
      m4 == move(m2, "active", "pruned", Accepts(w, prune))
      m5 == IF ~ lazy THEN move(m4, "active", "unsat", Unsat(w)) ELSE m4
  IN move(m5, "found", "unsat", Unsat(w))

\* re-binning that forgets the sat sweep of found (mutation)
rebin_no_found_sweep(w, stashes, find, prune, lazy) ==
  LET m1 == move(stashes, "active", "found", Accepts(w, find))
      m2 == move(m1, "active", "errored",
                 {k \in DOMAIN w.st : w.st[k].error # "None"})
      m3 == move(m2, "active", "deadended",
                 {k \in DOMAIN w.st : w.st[k].halt})
      m4 == move(m3, "active", "pruned", Accepts(w, prune))
  IN IF ~ lazy THEN move(m4, "active", "unsat", Unsat(w)) ELSE m4

\* re-binning that looks at halt before find (mutation)
rebin_deadended_first(w, stashes, find, prune, lazy) ==
  LET m1 == move(stashes, "active", "deadended",
                 {k \in DOMAIN w.st : w.st[k].halt})
      m2 == move(m1, "active", "found", Accepts(w, find))
      m3 == move(m2, "active", "errored",
                 {k \in DOMAIN w.st : w.st[k].error # "None"})
      m4 == move(m3, "active", "pruned", Accepts(w, prune))
      m5 == IF ~ lazy THEN move(m4, "active", "unsat", Unsat(w)) ELSE m4
  IN move(m5, "found", "unsat", Unsat(w))

\* step, the moves after the stepping loop
rebin(w, stashes, find, prune, lazy) ==
  LET m1 == move(stashes, "active", "found", Accepts(w, find))
      m2 == move(m1, "active", "errored",
                 {k \in DOMAIN w.st : w.st[k].error # "None"})
      m3 == move(m2, "active", "deadended",
                 {k \in DOMAIN w.st : w.st[k].halt})
      m4 == move(m3, "active", "pruned", Accepts(w, prune))
      m5 == IF ~ lazy THEN move(m4, "active", "unsat", Unsat(w)) ELSE m4
  IN move(m5, "found", "unsat", Unsat(w))

\* step, the same moves one by one: for every move performed, the stashes
\* before it and after it
rebin_moves(w, stashes, find, prune, lazy) ==
  LET mv(b, from_stash, to_stash, sel) ==
        [from |-> from_stash, to |-> to_stash, before |-> b,
         after |-> move(b, from_stash, to_stash, sel)]
      r1 == mv(stashes, "active", "found", Accepts(w, find))
      r2 == mv(r1.after, "active", "errored",
               {k \in DOMAIN w.st : w.st[k].error # "None"})
      r3 == mv(r2.after, "active", "deadended",
               {k \in DOMAIN w.st : w.st[k].halt})
      r4 == mv(r3.after, "active", "pruned", Accepts(w, prune))
      r5 == mv(r4.after, "active", "unsat", Unsat(w))
      r6 == mv(IF lazy THEN r4.after ELSE r5.after, "found", "unsat", Unsat(w))
  IN IF lazy THEN << r1, r2, r3, r4, r6 >> ELSE << r1, r2, r3, r4, r5, r6 >>

RECURSIVE disposeLoop_skip_first(_, _, _)
RECURSIVE disposeLoop(_, _, _)
\* the disposal loop starting at the second state of the list (mutation)
disposeLoop_skip_first(w, list, i) ==
  IF i + 1 > Len(list) THEN w
  ELSE [w EXCEPT !.heap[w.st[list[i + 1]].ref["solver"]]["solver"].disposed =
                   @ + 1]

\* step, the loop calling s.solver.dispose_context()
disposeLoop(w, list, i) ==
  IF i > Len(list) THEN w
  ELSE Bind(
         [w EXCEPT !.heap[w.st[list[i]].ref["solver"]]["solver"].disposed = @ + 1],
         LAMBDA d : disposeLoop(d, list, i + 1))

\* SimulationManager.step with no technique registered
step(w, stashes, find, prune, lazy) ==
  LET start == [w |-> w, new_active |-> << >>, raised |-> {},
                sawHalted |-> FALSE, handled |-> << >>, succs |-> << >>]
      finish(r, binned) ==
        [w |-> disposeLoop(r.w,
                           binned["pruned"] \o binned["unsat"]
                             \o binned["errored"],
                           1),
         stashes |-> binned, new_active |-> r.new_active,
         raised |-> r.raised, sawHalted |-> r.sawHalted,
         handled |-> r.handled, succs |-> r.succs,
         moves |-> rebin_moves(r.w,
                               [stashes EXCEPT !["active"] = r.new_active],
                               find, prune, lazy)]
      bin(r) ==
        Bind(rebin(r.w, [stashes EXCEPT !["active"] = r.new_active],
                   find, prune, lazy),
             LAMBDA binned : finish(r, binned))
  IN Bind(stepLoop(start, stashes["active"], 1), bin)

\* ------------------------------------------- exploration techniques
\* A manager with techniques is the record m: the world w, the registered
\* technique objects techs (_techniques), halt (_halt) and the log of the
\* hook and handler calls made.
\* The technique objects: each has a kind, the number n of its check_stashes
\* calls, the number of its setup calls, and whether one of its other hooks
\* ran before setup.
\*   Reorder: check_stashes reverses active, check_successors reverses the
\*            successors
\*   Replace: check_state returns a copy of the state it is given
\*   Budget:  allows two steps: its second check_stashes sets manager._halt,
\*            and is_complete is false until then
TechniqueKinds == {"Reorder", "Replace", "Budget"}

NewTechnique(kind) == [kind |-> kind, n |-> 0, setups |-> 0, early |-> FALSE]

Reverse(seq) == [i \in 1 .. Len(seq) |-> seq[Len(seq) + 1 - i]]

\* technique i enters one of its hooks other than setup
Enter(m, i) == [m EXCEPT !.techs[i].early = @ \/ m.techs[i].setups = 0]

Logged(m, hook, i, arg, ret) ==
  [m EXCEPT !.log = Append(@, [hook |-> hook, t |-> i, arg |-> arg,
                               ret |-> ret])]

\* technique.setup(manager)
setup(t) == [t EXCEPT !.setups = @ + 1]

\* SimulationManager.use_technique: setup, then registration
use_technique(m, t) == [m EXCEPT !.techs = Append(@, setup(t))]

\* technique.check_stashes(manager, stashes) -> stashes
check_stashes(m, i, stashes) ==
  LET t == m.techs[i]
      m1 == [Enter(m, i) EXCEPT !.techs[i].n = @ + 1]
  IN CASE t.kind = "Reorder" ->
            [m |-> m1, ret |-> [stashes EXCEPT !["active"] = Reverse(@)]]
       [] t.kind = "Budget" ->
            [m |-> [m1 EXCEPT !.halt = @ \/ t.n >= 1], ret |-> stashes]
       [] OTHER -> [m |-> m1, ret |-> stashes]

\* technique.check_state(manager, state) -> state
check_state(m, i, state) ==
  IF m.techs[i].kind = "Replace"
  THEN [m |-> [Enter(m, i) EXCEPT !.w = copy(m.w, state)], ret |-> m.w.next]
  ELSE [m |-> Enter(m, i), ret |-> state]

\* technique.check_successors(manager, successors) -> successors
check_successors(m, i, successors) ==
  IF m.techs[i].kind = "Reorder"
  THEN [m |-> Enter(m, i), ret |-> Reverse(successors)]
  ELSE [m |-> Enter(m, i), ret |-> successors]

\* technique.is_complete(manager)
is_complete(m, i) == m.techs[i].kind = "Budget" => m.techs[i].n >= 2

\* step: for tech in self._techniques:
\*           self.stashes = tech.check_stashes(self, self.stashes)
RECURSIVE check_stashes_loop(_, _, _)
check_stashes_loop(m, i, stashes) ==
  IF i > Len(m.techs) THEN [m |-> m, ret |-> stashes]
  ELSE Bind(check_stashes(m, i, stashes), LAMBDA r :
         check_stashes_loop(Logged(r.m, "check_stashes", i, stashes, r.ret),
                            i + 1, r.ret))

\* single_step_state: for t in self._techniques:
\*                        state_to_step = t.check_state(self, state_to_step)
RECURSIVE check_state_loop(_, _, _)
check_state_loop(m, i, state_to_step) ==
  IF i > Len(m.techs) THEN [m |-> m, ret |-> state_to_step]
  ELSE Bind(check_state(m, i, state_to_step), LAMBDA r :
         check_state_loop(Logged(r.m, "check_state", i, state_to_step, r.ret),
                          i + 1, r.ret))

RECURSIVE check_successors_loop_backwards(_, _, _)
RECURSIVE check_successors_loop(_, _, _)
\* the loop applying the techniques last to first (mutation)
check_successors_loop_backwards(m, i, successors) ==
  IF i > Len(m.techs) THEN [m |-> m, ret |-> successors]
  ELSE LET j == Len(m.techs) + 1 - i
       IN Bind(check_successors(m, j, successors), LAMBDA r :
            check_successors_loop_backwards(
              Logged(r.m, "check_successors", j, successors, r.ret),
              i + 1, r.ret))

\* single_step_state: for t in self._techniques:
\*                        successors = t.check_successors(self, successors)
check_successors_loop(m, i, successors) ==
  IF i > Len(m.techs) THEN [m |-> m, ret |-> successors]
  ELSE Bind(check_successors(m, i, successors), LAMBDA r :
         check_successors_loop(
           Logged(r.m, "check_successors", i, successors, r.ret),
           i + 1, r.ret))

\* SimulationManager.single_step_state with techniques (no inspect plugin):
\* the check_state hooks compute state_to_step, the handler is called as
\* state.curr_stmt.handle(state), the check_successors hooks follow
single_step_state_techniques(m, state) ==
  LET after(c, h) ==
        Bind(check_successors_loop(
               Logged([c.m EXCEPT !.w = h.w], "handle", 0, state,
                      h.successors),
               1, h.successors),
             LAMBDA r : [m |-> r.m, successors |-> r.ret,
                         raised |-> h.raised])
      stepIt(c) ==
        Bind(single_step_state(c.m.w, state), LAMBDA h : after(c, h))
  IN Bind(check_state_loop(m, 1, state), stepIt)

\* step with techniques, the loop over self.active
RECURSIVE stepLoop_techniques(_, _, _)
stepLoop_techniques(acc, active, i) ==
  IF i > Len(active) THEN acc
  ELSE Bind(single_step_state_techniques(acc.m, active[i]), LAMBDA r :
         stepLoop_techniques(
           [m |-> r.m, new_active |-> acc.new_active \o r.successors],
           active, i + 1))

\* SimulationManager.step with techniques
step_techniques(m, stashes, find, prune, lazy) ==
  LET finish(r, binned) ==
        [m |-> [r.m EXCEPT !.w =
                  disposeLoop(r.m.w,
                              binned["pruned"] \o binned["unsat"]
                                \o binned["errored"],
                              1)],
         stashes |-> binned]
      bin(c, r) ==
        Bind(rebin(r.m.w, [c.ret EXCEPT !["active"] = r.new_active],
                   find, prune, lazy),
             LAMBDA binned : finish(r, binned))
      loop(c) ==
        Bind(stepLoop_techniques([m |-> c.m, new_active |-> << >>],
                                 c.ret["active"], 1),
             LAMBDA r : bin(c, r))
  IN Bind(check_stashes_loop(m, 1, stashes), loop)

\* run that does not look at _halt (mutation)
run_without_halt(m, stashes, find_all_) ==
  IF ~ (Len(stashes["active"]) > 0
          \/ (m.techs # << >>
                /\ ~ \A i \in 1 .. Len(m.techs) : is_complete(m, i)))
  THEN "return"
  ELSE IF Len(stashes["found"]) > 0 /\ ~ find_all_ THEN "return"
       ELSE "step"

\* SimulationManager.run, one evaluation of the loop: the while condition,
\* the two breaks, or the call of step
run(m, stashes, find_all_) ==
  IF ~ (Len(stashes["active"]) > 0
          \/ (m.techs # << >>
                /\ ~ \A i \in 1 .. Len(m.techs) : is_complete(m, i)))
  THEN "return"
  ELSE IF Len(stashes["found"]) > 0 /\ ~ find_all_ THEN "return"
       ELSE IF m.halt THEN "return"
            ELSE "step"

\* ------------------------------------------------------------- the state
VARIABLES
  st,             \* state objects: key -> scalar fields and references
  heap,           \* containers: key -> field -> contents
  next,           \* SymbolicEVMState.uuid_generator: the next uuid
  stashes,        \* SimulationManager.stashes
  insns_count,    \* SimulationManager.insns_count
  LAZY_SOLVES,    \* options.LAZY_SOLVES
  last,           \* the operation performed last
  args,           \* the find and prune predicates of the run
  obs,            \* what the last step did: successors, raised, halted seen
  seededHalted,   \* whether a state with halt set was handed to the manager
  call,           \* outcome of the last direct handler call
  slv,            \* the solver the stand-alone probes query
  log,            \* copies and writes performed (parent of each copy, counts)
  _halt,          \* SimulationManager._halt
  _techniques,    \* SimulationManager._techniques: the technique objects
  hooks,          \* the hook and handler calls of the last step, in order
  running,        \* where run() is: "idle", "loop" or "returned"
  find_all,       \* the find_all argument of run()
  trans           \* the last translate_xid call: arguments and result

vars ==
  << st, heap, next, stashes, insns_count, LAZY_SOLVES, last, args, obs,
     seededHalted, call, slv, log, gives_up, _halt, _techniques, hooks,
     running, find_all, trans >>

runVars == << _halt, _techniques, hooks, running, find_all >>

\* the manager as __init__ leaves it, run() not called
NoRun ==
  /\ _halt = FALSE
  /\ _techniques = << >>
  /\ hooks = << >>
  /\ running = "idle"
  /\ find_all = FALSE

W == [st |-> st, heap |-> heap, next |-> next]

\* a state as __init__ leaves it, with pc, registers and path constraints
\* set by the caller
NewState(pc, cond, dest, cs, halt, xid) ==
  [obj |-> [uuid |-> 0, xid |-> xid, pc |-> pc, halt |-> halt,
            error |-> "None", ref |-> [f \in Fields |-> 0]],
   mem |-> [f \in Fields |->
              CASE f = "registers" -> [cond |-> cond, dest |-> dest]
                [] f = "solver" -> [constraints |-> cs, disposed |-> 0]
                [] OTHER -> 0]]

\* allocation of a constructed state as object / uuid n
Alloc(w, ns) ==
  LET n == w.next
  IN [st |-> (n :> [ns.obj EXCEPT !.uuid = n, !.ref = [f \in Fields |-> n]])
             @@ w.st,
      heap |-> (n :> ns.mem) @@ w.heap,
      next |-> n + 1]

EmptyWorld == [st |-> << >>, heap |-> << >>, next |-> 1]

EmptyStashes == [n \in StashNames |-> << >>]

NoCall == [done |-> FALSE, kind |-> "none", succ |-> << >>, exc |-> "None",
           probed |-> FALSE, s |-> get_solver]

NoObs == [new_active |-> << >>, raised |-> {}, sawHalted |-> FALSE,
          stepped |-> << >>, handled |-> << >>, succs |-> << >>,
          moves |-> << >>, disposed0 |-> << >>]

\* no translate_xid call made
NoTrans == [done |-> FALSE, expr |-> << >>, old_xid |-> 0, new_xid |-> 0,
            res |-> << >>]

NoLog == [parent |-> << >>, writes |-> 0, probes |-> 0, written |-> 0,
          field |-> "none", res |-> FALSE, cs0 |-> << >>,
          cond0 |-> IntV(0), dest0 |-> IntV(0)]

\* path constraints a caller may have added before handing the state over
XEq0 == [x |-> X, eq |-> TRUE, c |-> 0]
XEq1 == [x |-> X, eq |-> TRUE, c |-> 1]
XNe0 == [x |-> X, eq |-> FALSE, c |-> 0]

\* ------------------------------------------------- Spec: the manager
EntryPcs == StmtIds
EntryDests == {IntV(5), IntV(BadPc), SymV(Y)}
EntryConstraints == {<< >>, << XEq0 >>, << XEq0, XEq1 >>}
EntryConds == {SymV(X), BoolV(TRUE)}
FindArgs == {{}, {3}, {5}}
PruneArgs == {{}, {4}}
AddedStates == {<< 1, IntV(5) >>, << 3, SymV(Y) >>}   \* pc, dest register

\* SimulationManager.__init__(entry_state, project)
Init ==
  \E pc \in EntryPcs, cond \in EntryConds, dest \in EntryDests,
     cs \in EntryConstraints, halt \in BOOLEAN, lazy \in BOOLEAN,
     find \in FindArgs, prune \in PruneArgs :
    LET w == Alloc(EmptyWorld, NewState(pc, cond, dest, cs, halt, 1))
    IN /\ args = [find |-> find, prune |-> prune]
       /\ st = w.st
       /\ heap = w.heap
       /\ next = w.next
       /\ stashes = [EmptyStashes EXCEPT !["active"] = << 1 >>]
       /\ insns_count = 0
       /\ LAZY_SOLVES = lazy
       /\ last = "init"
       /\ TRUE
       /\ obs = NoObs
       /\ seededHalted = halt
       /\ call = NoCall
       /\ slv = get_solver
       /\ log = NoLog
       /\ gives_up = {}
       /\ trans = NoTrans
       /\ NoRun

\* one call of step(find, prune), with the find and prune handed to run()
Step ==
  /\ insns_count < MaxSteps
  /\ \E r \in {step(W, stashes, args.find, args.prune, LAZY_SOLVES)} :
       /\ r.w.next <= MaxUuid + 1
       /\ st' = r.w.st
       /\ heap' = r.w.heap
       /\ next' = r.w.next
       /\ stashes' = r.stashes
       /\ insns_count' = insns_count + 1
       /\ last' = "step"
       /\ obs' = [new_active |-> r.new_active, raised |-> r.raised,
                  sawHalted |-> obs.sawHalted \/ r.sawHalted,
                  stepped |-> stashes["active"],
                  handled |-> r.handled, succs |-> r.succs,
                  moves |-> r.moves,
                  disposed0 |-> [k \in DOMAIN st |->
                                   Read(W, k, "solver").disposed]]
  /\ UNCHANGED << LAZY_SOLVES, args, seededHalted, call, slv, log, gives_up,
                  trans,
                  runVars >>

\* before the first step the caller appends a newly constructed state to the
\* live list that the `active` property returns
AddState ==
  /\ running = "idle"
  /\ next <= MaxUuid
  /\ insns_count = 0
  /\ \E seed \in AddedStates :
       LET w == Alloc(W, NewState(seed[1], SymV(X), seed[2], << >>, FALSE, 1))
       IN /\ st' = w.st
          /\ heap' = w.heap
          /\ next' = w.next
          /\ stashes' = [stashes EXCEPT !["active"] = Append(@, next)]
  /\ last' = "add"
  /\ UNCHANGED << insns_count, LAZY_SOLVES, args, obs, seededHalted, call,
                  slv, log, gives_up, trans,
                  runVars >>

Next == Step \/ AddState

Spec == Init /\ [][Next]_vars

\* --------------------------------------- SpecRun: run() with techniques
M == [w |-> W, techs |-> _techniques, halt |-> _halt, log |-> << >>]

\* entry states: pc, cond register, dest register, path constraints
RunEntries ==
  {<< 1, BoolV(TRUE), IntV(5), << >> >>,
   << 1, IntV(0), IntV(5), << >> >>,
   << 3, SymV(X), SymV(Y), << >> >>,
   << 3, SymV(X), IntV(3), << >> >>,
   << 1, SymV(X), IntV(5), << XEq0 >> >>,
   << 1, SymV(X), IntV(5), << XEq0, XEq1 >> >>}
RunFinds == {{}, {5}}

InitRun ==
  \E e \in RunEntries, find \in RunFinds, lazy \in BOOLEAN, fa \in BOOLEAN :
    LET w == Alloc(EmptyWorld, NewState(e[1], e[2], e[3], e[4], FALSE, 1))
    IN /\ args = [find |-> find, prune |-> {}]
       /\ st = w.st
       /\ heap = w.heap
       /\ next = w.next
       /\ stashes = [EmptyStashes EXCEPT !["active"] = << 1 >>]
       /\ insns_count = 0
       /\ LAZY_SOLVES = lazy
       /\ last = "init"
       /\ obs = NoObs
       /\ seededHalted = FALSE
       /\ call = NoCall
       /\ slv = get_solver
       /\ log = NoLog
       /\ gives_up = {}
       /\ trans = NoTrans
       /\ _halt = FALSE
       /\ _techniques = << >>
       /\ hooks = << >>
       /\ running = "idle"
       /\ find_all = fa

\* sm.use_technique(T) before run(), for a technique object not yet registered
UseTechnique ==
  /\ running = "idle"
  /\ \E kind \in TechniqueKinds :
       /\ \A i \in 1 .. Len(_techniques) : _techniques[i].kind # kind
       /\ _techniques' = use_technique(M, NewTechnique(kind)).techs
  /\ last' = "use_technique"
  /\ UNCHANGED << st, heap, next, stashes, insns_count, LAZY_SOLVES, args,
                  obs, seededHalted, call, slv, log, gives_up, trans, _halt, hooks,
                  running, find_all >>

\* sm.run(find, prune, find_all) is called
Run ==
  /\ running = "idle"
  /\ running' = "loop"
  /\ last' = "run"
  /\ UNCHANGED << st, heap, next, stashes, insns_count, LAZY_SOLVES, args,
                  obs, seededHalted, call, slv, log, gives_up, trans, _halt,
                  _techniques, hooks, find_all >>

\* an iteration of the loop of run() that reaches self.step(find, prune)
RunStep ==
  /\ running = "loop"
  /\ insns_count < MaxRunSteps
  /\ run(M, stashes, find_all) = "step"
  /\ \E r \in {step_techniques(M, stashes, args.find, args.prune,
                               LAZY_SOLVES)} :
       /\ st' = r.m.w.st
       /\ heap' = r.m.w.heap
       /\ next' = r.m.w.next
       /\ stashes' = r.stashes
       /\ _techniques' = r.m.techs
       /\ _halt' = r.m.halt
       /\ hooks' = r.m.log
  /\ insns_count' = insns_count + 1
  /\ last' = "step"
  /\ UNCHANGED << LAZY_SOLVES, args, obs, seededHalted, call, slv, log,
                  gives_up, trans, running, find_all >>

\* the loop of run() ends: the while condition is false or a break is taken
RunReturn ==
  /\ running = "loop"
  /\ run(M, stashes, find_all) = "return"
  /\ running' = "returned"
  /\ last' = "return"
  /\ UNCHANGED << st, heap, next, stashes, insns_count, LAZY_SOLVES, args,
                  obs, seededHalted, call, slv, log, gives_up, trans, _halt,
                  _techniques, hooks, find_all >>

NextRun == UseTechnique \/ Run \/ RunStep \/ RunReturn

SpecRun == InitRun /\ [][NextRun]_vars

\* run() is executed by one thread: once called, its loop keeps going
SpecRunFair ==
  InitRun /\ [][NextRun]_vars /\ WF_vars(RunStep) /\ WF_vars(RunReturn)

\* ------------------------------------- SpecJumpi: the handlers, the probes
\* A state at the JUMPI (pc 2) or the JUMP (pc 3) is handed to the statement's
\* handler directly; the probe helpers are called on a solver holding the
\* state's constraints.
XNe1 == [x |-> X, eq |-> FALSE, c |-> 1]
CondVals == {IntV(0), IntV(1), IntV(5), BoolV(TRUE), BoolV(FALSE), SymV(X)}
DestVals == {IntV(3), SymV(Y)}
PathConstraints ==
  {<< >>, << XEq0 >>, << XEq1 >>, << XNe0 >>, << XNe1, XEq0 >>,
   << XEq0, XEq1 >>}
ProbeAtoms == {XEq0, XEq1, XNe0, XNe1}
Helpers == {"is_true", "is_false", "is_sat", "is_unsat"}

\* the queries the JUMPI handler sends for a state with constraints cs
ProbeQueries(cs) == {cs \o << XNe1 >>, cs \o << XNe0 >>}

InitJumpi ==
  \E pc \in {2, 3}, cond \in CondVals, dest \in DestVals,
     cs \in PathConstraints :
    LET w == Alloc(EmptyWorld, NewState(pc, cond, dest, cs, FALSE, 1))
    IN /\ gives_up = {}
       /\ trans = NoTrans
       /\ st = w.st
       /\ heap = w.heap
       /\ next = w.next
       /\ stashes = EmptyStashes
       /\ insns_count = 0
       /\ LAZY_SOLVES = FALSE
       /\ last = "init"
       /\ args = [find |-> {}, prune |-> {}]
       /\ obs = NoObs
       /\ seededHalted = FALSE
       /\ call = NoCall
       /\ slv = addAll(get_solver, cs)
       /\ log = [NoLog EXCEPT !.cs0 = cs, !.cond0 = cond, !.dest0 = dest]
       /\ NoRun

\* TAC_Jumpi(cond, dest).handler(state) on state 1
CallJumpi ==
  /\ ~ call.done
  /\ Kind(st[1].pc) = "JUMPI"
  /\ LET r == TAC_Jumpi_handler(W, 1)
     IN /\ st' = r.w.st
        /\ heap' = r.w.heap
        /\ next' = r.w.next
        /\ call' = [done |-> TRUE, kind |-> "JUMPI", succ |-> r.succ,
                    exc |-> r.exc, probed |-> r.probed, s |-> r.s]
  /\ last' = "call"
  /\ UNCHANGED << stashes, insns_count, LAZY_SOLVES, args, obs, seededHalted,
                  slv, log, gives_up, trans,
                  runVars >>

\* TAC_Jump(dest).handle(state) on state 1
CallJump ==
  /\ ~ call.done
  /\ Kind(st[1].pc) = "JUMP"
  /\ LET r == TAC_Jump_handle(W, 1)
     IN /\ st' = r.w.st
        /\ heap' = r.w.heap
        /\ next' = r.w.next
        /\ call' = [done |-> TRUE, kind |-> "JUMP", succ |-> r.succ,
                    exc |-> r.exc, probed |-> FALSE, s |-> get_solver]
  /\ last' = "call"
  /\ UNCHANGED << stashes, insns_count, LAZY_SOLVES, args, obs, seededHalted,
                  slv, log, gives_up, trans,
                  runVars >>

\* one of the helpers is_true / is_false / is_sat / is_unsat called on slv
Probe ==
  /\ log.probes < MaxProbes
  /\ \E h \in Helpers, c \in ProbeAtoms :
       LET r == CASE h = "is_true" -> is_true(c, slv)
                  [] h = "is_false" -> is_false(c, slv)
                  [] h = "is_sat" -> is_sat(c, slv)
                  [] OTHER -> is_unsat(c, slv)
       IN /\ slv' = r.s
          /\ log' = [log EXCEPT !.probes = @ + 1, !.res = r.res]
  /\ last' = "probe"
  /\ UNCHANGED << st, heap, next, stashes, insns_count, LAZY_SOLVES, args,
                  obs, seededHalted, call, gives_up, trans,
                  runVars >>

NextJumpi == CallJumpi \/ CallJump \/ Probe

SpecJumpi == InitJumpi /\ [][NextJumpi]_vars

\* ------------------ SpecUnknown: the handlers with a solver that gives up
\* As SpecJumpi, with z3 answering unknown on one or both of the queries
\* the JUMPI handler sends.
InitUnknown ==
  \E pc \in {2, 3}, cond \in CondVals, dest \in DestVals,
     cs \in PathConstraints :
    \E gu \in (SUBSET ProbeQueries(cs)) \ {{}} :
      LET w == Alloc(EmptyWorld, NewState(pc, cond, dest, cs, FALSE, 1))
      IN /\ gives_up = gu
         /\ trans = NoTrans
         /\ st = w.st
         /\ heap = w.heap
         /\ next = w.next
         /\ stashes = EmptyStashes
         /\ insns_count = 0
         /\ LAZY_SOLVES = FALSE
         /\ last = "init"
         /\ args = [find |-> {}, prune |-> {}]
         /\ obs = NoObs
         /\ seededHalted = FALSE
         /\ call = NoCall
         /\ slv = addAll(get_solver, cs)
         /\ log = [NoLog EXCEPT !.cs0 = cs, !.cond0 = cond, !.dest0 = dest]
         /\ NoRun

SpecUnknown == InitUnknown /\ [][NextJumpi]_vars

\* ------------------------------------------ SpecNav: CFG navigation
\* A state at any statement of the CFG, not halted; set_next_pc() is called
\* on it, again and again.
InitNav ==
  \E pc \in StmtIds, cond \in CondVals, dest \in DestVals,
     cs \in PathConstraints :
    LET w == Alloc(EmptyWorld, NewState(pc, cond, dest, cs, FALSE, 1))
    IN /\ gives_up = {}
       /\ trans = NoTrans
       /\ st = w.st
       /\ heap = w.heap
       /\ next = w.next
       /\ stashes = EmptyStashes
       /\ insns_count = 0
       /\ LAZY_SOLVES = FALSE
       /\ last = "init"
       /\ args = [find |-> {}, prune |-> {}]
       /\ obs = NoObs
       /\ seededHalted = FALSE
       /\ call = NoCall
       /\ slv = get_solver
       /\ log = [NoLog EXCEPT !.cs0 = cs, !.cond0 = cond, !.dest0 = dest]
       /\ NoRun

\* state.set_next_pc() on state 1; the call returns (both exceptions of
\* get_fallthrough_pc are caught inside)
SetNextPc ==
  /\ statement(st[1].pc) # NoPc
  /\ LET w == set_next_pc(W, 1)
     IN /\ st' = w.st
        /\ heap' = w.heap
        /\ next' = w.next
  /\ call' = [NoCall EXCEPT !.done = TRUE, !.kind = "set_next_pc"]
  /\ last' = "set_next_pc"
  /\ UNCHANGED << stashes, insns_count, LAZY_SOLVES, args, obs, seededHalted,
                  slv, log, gives_up, trans,
                  runVars >>

NextNav == SetNextPc

SpecNav == InitNav /\ [][NextNav]_vars

\* ------------------- SpecState: construction, reset, copy, translate_xid
\* A z3 term: a symbolic variable (op "var", with its name and bit size), a
\* value (op "val"), or an operator applied to the terms args.  A name is
\* the sequence of the pieces that the character '_' separates in it:
\* GAS_1 is << "GAS", "1" >>.
Term(op, name, size, v, children) ==
  [op |-> op, name |-> name, size |-> size, v |-> v, args |-> children]

BVS(name, size) == Term("var", name, size, 0, << >>)
BVV(v, size) == Term("val", << >>, size, v, << >>)
BV_Add(a, b) == Term("add", << >>, 256, 0, << a, b >>)
Equal(a, b) == Term("eq", << >>, 1, 0, << a, b >>)
BV_ULT(a, b) == Term("ult", << >>, 1, 0, << a, b >>)
BV_UGE(a, b) == Term("uge", << >>, 1, 0, << a, b >>)
BV_Concat(bytes) == Term("concat", << >>, 8 * Len(bytes), 0, bytes)
None == Term("none", << >>, 0, 0, << >>)

\* f'{prefix}_{n}' and '%s_%d' % (prefix, n): the decimal digits of n are
\* the last piece of the name
Fmt(prefix, n) == Append(prefix, ToString(n))

\* utils/z3.py ctx_or_symbolic: ctx.get(v, BitVec('%s_%d' % (v, xid), 256))
ctx_or_symbolic(v, ctx, xid) ==
  IF v \in DOMAIN ctx THEN ctx[v] ELSE BVS(Fmt(<< v >>, xid), 256)

\* LambdaMemory(tag, value_sort, default): an array named by its tag; cells
\* holds the terms stored so far, cells[i + 1] at index i
LambdaMemory(tag, size, default) ==
  [tag |-> tag, size |-> size, default |-> default, cells |-> << >>]

\* the attribute calldata while it is None
NoMemory == LambdaMemory(<< >>, 0, None)

CodeLen == 6                \* len(project.code)
MAX_CALLDATA_SIZE == 256    \* opt.MAX_CALLDATA_SIZE

\* int(cb, 16) for the two hex digits of one calldata byte
HexByte(cb) ==
  CASE cb = "00" -> 0
    [] cb = "01" -> 1
    [] OTHER -> 255

\* the init_ctx keys that set_init_ctx copies into ctx as concrete values
CtxKeys ==
  {"CALLER", "ORIGIN", "ADDRESS", "NUMBER", "DIFFICULTY", "TIMESTAMP",
   "CALLVALUE"}

\* SymbolicEVMState.set_init_ctx on a state with execution id xid, ctx as
\* __init__ has filled it and no constraint yet.  init_ctx maps the keys
\* given to their values; CALLDATA is the sequence of the two-digit pieces of
\* the hex string, "SS" marking a symbolic byte.
set_init_ctx(xid, start_balance, ctx, init_ctx) ==
  LET has(key) == key \in DOMAIN init_ctx
      calldata_bytes == init_ctx["CALLDATA"]
      n == Len(calldata_bytes)
      calldatasize == BVS(Fmt(<< "CALLDATASIZE" >>, xid), 256)
      byte(index) ==
        IF index < n
        THEN IF calldata_bytes[index + 1] = "SS"
             THEN BVS(Fmt(<< "CALLDATA", "BYTE" >>, index), 8)
             ELSE BVV(HexByte(calldata_bytes[index + 1]), 8)
        ELSE BVS(Fmt(<< "CALLDATA", "BYTE" >>, index), 8)
      sized == has("CALLDATA") /\ has("CALLDATASIZE")
      top == IF sized /\ init_ctx["CALLDATASIZE"] > n
             THEN init_ctx["CALLDATASIZE"] ELSE n
      calldata ==
        IF has("CALLDATA")
        THEN [LambdaMemory(Fmt(<< "CALLDATA" >>, xid), 8,
                           IF sized THEN BVV(0, 8) ELSE None)
                EXCEPT !.cells = [i \in 1 .. top |-> byte(i - 1)]]
        ELSE LambdaMemory(Fmt(<< "CALLDATA" >>, xid), 8, None)
      max == IF sized THEN init_ctx["CALLDATASIZE"] ELSE MAX_CALLDATA_SIZE
      c1 == IF sized
            THEN << Equal(calldatasize, BVV(init_ctx["CALLDATASIZE"], 256)) >>
            ELSE IF has("CALLDATA")
                 THEN << BV_ULT(calldatasize, BVV(max + 1, 256)),
                         BV_UGE(calldatasize, BVV(n, 256)) >>
                 ELSE << BV_ULT(calldatasize, BVV(max + 1, 256)) >>
      c2 == IF has("BALANCE")
            THEN << Equal(start_balance, BVV(init_ctx["BALANCE"], 256)) >>
            ELSE << >>
      set == CtxKeys \cap DOMAIN init_ctx
  IN [ctx |-> [key \in set |-> BVV(init_ctx[key], 256)] @@ ctx,
      calldata |-> calldata,
      calldatasize |-> calldatasize,
      MAX_CALLDATA_SIZE |-> max,
      constraints |-> c1 \o c2]

\* the attributes holding symbolic terms that __init__ creates
SymbolFields ==
  {"gas", "start_balance", "balance", "calldatasize", "memory", "storage",
   "calldata", "solver"}

\* SymbolicEVMState(xid, project, init_ctx=..., partial_concrete_storage=...):
\* the state as __init__ leaves it.  `built` names the attributes that the
\* last __init__ or reset of the object has created.
SymbolicEVMState(xid, init_ctx, partial_concrete_storage) ==
  LET ctx0 == << >>
      gas == BVS(Fmt(<< "GAS" >>, xid), 256)
      start_balance == BVS(Fmt(<< "BALANCE" >>, xid), 256)
      balance ==
        BV_Add(start_balance, ctx_or_symbolic("CALLVALUE", ctx0, xid))
      ctx1 == ("CODESIZE-ADDRESS" :> BVV(CodeLen, 256)) @@ ctx0
      storage ==
        IF ~ partial_concrete_storage
        THEN LambdaMemory(Fmt(<< "STORAGE" >>, xid), 256, None)
        ELSE LambdaMemory(Fmt(<< "PCONCR", "STORAGE" >>, xid), 256, None)
  IN Bind(set_init_ctx(xid, start_balance, ctx1, init_ctx), LAMBDA r :
       [obj |-> [uuid |-> 0, xid |-> xid, pc |-> NoPc, halt |-> FALSE,
                 error |-> "None", ref |-> [f \in Fields |-> 0],
                 gas |-> gas, start_balance |-> start_balance,
                 balance |-> balance, calldatasize |-> r.calldatasize,
                 MAX_CALLDATA_SIZE |-> r.MAX_CALLDATA_SIZE,
                 built |-> SymbolFields],
        mem |-> [f \in Fields |->
                   CASE f = "ctx" -> r.ctx
                     [] f = "returndata" ->
                          [size |-> None, instruction_count |-> None]
                     [] f = "memory" ->
                          LambdaMemory(Fmt(<< "MEMORY" >>, xid), 8, BVV(0, 8))
                     [] f = "storage" -> storage
                     [] f = "calldata" -> r.calldata
                     [] f = "solver" ->
                          [constraints |-> r.constraints, disposed |-> 0]
                     [] OTHER -> << >>]])

\* SymbolicEVMState.reset(xid) on the object k: a new uuid, new plugins and
\* containers, new gas and balance terms, calldata and calldatasize None;
\* storage and MAX_CALLDATA_SIZE are not assigned
reset(w, k, xid) ==
  LET n == w.next
      ctx0 == << >>
      gas == BVS(Fmt(<< "GAS" >>, xid), 256)
      start_balance == BVS(Fmt(<< "BALANCE" >>, xid), 256)
      balance ==
        BV_Add(start_balance, ctx_or_symbolic("CALLVALUE", ctx0, xid))
      ctx1 == ("CODESIZE-ADDRESS" :> BVV(CodeLen, 256)) @@ ctx0
      obj == [w.st[k] EXCEPT
                !.xid = xid, !.uuid = n, !.pc = NoPc, !.halt = FALSE,
                !.error = "None", !.gas = gas,
                !.start_balance = start_balance, !.balance = balance,
                !.calldatasize = None,
                !.ref = [f \in Fields |->
                           IF f = "storage" THEN w.st[k].ref[f] ELSE n],
                !.built = SymbolFields \ {"storage"}]
      mem == [f \in Fields |->
                CASE f = "ctx" -> ctx1
                  [] f = "returndata" ->
                       [size |-> None, instruction_count |-> None]
                  [] f = "memory" ->
                       LambdaMemory(Fmt(<< "MEMORY" >>, xid), 8, BVV(0, 8))
                  [] f = "storage" -> NoMemory
                  [] f = "calldata" -> NoMemory
                  [] f = "solver" -> [constraints |-> << >>, disposed |-> 0]
                  [] OTHER -> << >>]
  IN [st |-> [w.st EXCEPT ![k] = obj],
      heap |-> (n :> mem) @@ w.heap,
      next |-> n + 1]

\* utils/z3.py get_vars_non_recursive(f): the variables occurring in f
RECURSIVE get_vars_non_recursive(_)
get_vars_non_recursive(f) ==
  IF f.op = "var" THEN {f}
  ELSE UNION {get_vars_non_recursive(f.args[i]) : i \in 1 .. Len(f.args)}

\* translate_xid, its helper raw(s): '_'.join(s.split('_')[:-1])
raw(s) == IF Len(s) = 1 THEN << "" >> ELSE SubSeq(s, 1, Len(s) - 1)

\* z3.substitute(expr, subst): every occurrence of a key of subst replaced
RECURSIVE substitute(_, _)
substitute(expr, subst) ==
  IF expr \in DOMAIN subst THEN subst[expr]
  ELSE [expr EXCEPT !.args = [i \in 1 .. Len(expr.args) |->
                                substitute(expr.args[i], subst)]]

\* utils/z3.py translate_xid: every variable is replaced by a variable of its
\* own sort named raw(name) + '_' + new_xid
translate_xid(expr, old_xid, new_xid) ==
  IF old_xid = new_xid
  THEN substitute(expr, << >>)
  ELSE LET substitutions ==
             [v \in get_vars_non_recursive(expr) |->
                [v EXCEPT !.name = Fmt(raw(v.name), new_xid)]]
       IN substitute(expr, substitutions)

\* the variables that attribute f of state k holds: those of the term, of
\* the path constraints, or the array named by the tag of a memory and the
\* variables stored in it
SymbolsIn(w, k, f) ==
  CASE f \in {"gas", "start_balance", "balance", "calldatasize"} ->
         get_vars_non_recursive(w.st[k][f])
    [] f = "solver" ->
         UNION {get_vars_non_recursive(Constraints(w, k)[i]) :
                  i \in 1 .. Len(Constraints(w, k))}
    [] OTHER ->
         LET m == Read(w, k, f)
         IN (IF m.tag = << >> THEN {} ELSE {BVS(m.tag, m.size)})
              \cup UNION {get_vars_non_recursive(m.cells[i]) :
                            i \in 1 .. Len(m.cells)}

\* the expressions over a state that a caller hands to translate_xid: its
\* gas, its balance, each path constraint, the bytes of its calldata
Exprs(w, k) ==
  LET cells == Read(w, k, "calldata").cells
  IN {w.st[k].gas, w.st[k].balance}
       \cup {Constraints(w, k)[i] : i \in 1 .. Len(Constraints(w, k))}
       \cup (IF cells = << >> THEN {} ELSE {BV_Concat(cells)})

Xids == 1 .. MaxXid

\* the arguments of the constructor: init_ctx, partial_concrete_storage
BuildArgs ==
  {<< << >>, FALSE >>,
   << [CALLVALUE |-> 5], FALSE >>,
   << [CALLDATA |-> << "SS", "SS" >>], FALSE >>,
   << [CALLDATA |-> << "01", "SS" >>, CALLDATASIZE |-> 3], TRUE >>,
   << [BALANCE |-> 7, CALLER |-> 1], TRUE >>}

InitState ==
  /\ st = EmptyWorld.st
  /\ heap = EmptyWorld.heap
  /\ next = EmptyWorld.next
  /\ stashes = EmptyStashes
  /\ insns_count = 0
  /\ LAZY_SOLVES = FALSE
  /\ last = "init"
  /\ args = [find |-> {}, prune |-> {}]
  /\ obs = NoObs
  /\ seededHalted = FALSE
  /\ call = NoCall
  /\ slv = get_solver
  /\ log = NoLog
  /\ gives_up = {}
  /\ trans = NoTrans
  /\ NoRun

\* s = SymbolicEVMState(xid, project, init_ctx=..., ...)
Construct ==
  /\ next <= MaxBuilds
  /\ \E xid \in Xids, a \in BuildArgs :
       LET w == Alloc(W, SymbolicEVMState(xid, a[1], a[2]))
       IN /\ st' = w.st
          /\ heap' = w.heap
          /\ next' = w.next
  /\ last' = "construct"
  /\ UNCHANGED << stashes, insns_count, LAZY_SOLVES, args, obs, seededHalted,
                  call, slv, log, gives_up, trans, runVars >>

\* t = s.copy()
CopyState ==
  /\ next <= MaxBuilds
  /\ \E s \in DOMAIN st :
       LET w == copy(W, s)
       IN /\ st' = w.st
          /\ heap' = w.heap
          /\ next' = w.next
  /\ last' = "copy"
  /\ UNCHANGED << stashes, insns_count, LAZY_SOLVES, args, obs, seededHalted,
                  call, slv, log, gives_up, trans, runVars >>

\* s.reset(xid)
Reset ==
  /\ next <= MaxBuilds
  /\ \E s \in DOMAIN st, xid \in Xids :
       LET w == reset(W, s, xid)
       IN /\ st' = w.st
          /\ heap' = w.heap
          /\ next' = w.next
  /\ last' = "reset"
  /\ UNCHANGED << stashes, insns_count, LAZY_SOLVES, args, obs, seededHalted,
                  call, slv, log, gives_up, trans, runVars >>

\* translate_xid(expr, s.xid, new_xid) for an expression over the state s
TranslateXid ==
  /\ \E s \in DOMAIN st, new_xid \in Xids :
       \E expr \in Exprs(W, s) :
         trans' = [done |-> TRUE, expr |-> expr, old_xid |-> st[s].xid,
                   new_xid |-> new_xid,
                   res |-> translate_xid(expr, st[s].xid, new_xid)]
  /\ last' = "translate_xid"
  /\ UNCHANGED << st, heap, next, stashes, insns_count, LAZY_SOLVES, args,
                  obs, seededHalted, call, slv, log, gives_up, runVars >>

NextState == Construct \/ CopyState \/ Reset \/ TranslateXid

SpecState == InitState /\ [][NextState]_vars

\* --------------------------------------------- SpecCopy: copy, then writes
ReadNow(k, f) == heap[st[k].ref[f]][f]

InitCopy ==
  \E in \in {<< NoPc, 1 >>, << 2, 2 >>} :      \* pc, xid
    LET w == Alloc(EmptyWorld,
                   NewState(in[1], SymV(X), IntV(3), << XNe0 >>, FALSE, in[2]))
    IN /\ st = w.st
       /\ heap = w.heap
       /\ next = w.next
       /\ stashes = EmptyStashes
       /\ insns_count = 0
       /\ LAZY_SOLVES = FALSE
       /\ last = "init"
       /\ args = [find |-> {}, prune |-> {}]
       /\ obs = NoObs
       /\ seededHalted = FALSE
       /\ call = NoCall
       /\ slv = get_solver
       /\ log = NoLog
       /\ gives_up = {}
       /\ trans = NoTrans
       /\ NoRun

\* t = s.copy() for an existing state s
DoCopy ==
  /\ next <= MaxCopies + 1
  /\ \E s \in DOMAIN st :
       LET w == copy(W, s)
       IN /\ st' = w.st
          /\ heap' = w.heap
          /\ next' = w.next
          /\ log' = [log EXCEPT !.parent = (next :> s) @@ @]
  /\ last' = "copy"
  /\ UNCHANGED << stashes, insns_count, LAZY_SOLVES, args, obs, seededHalted,
                  call, slv, gives_up, trans,
                  runVars >>

\* the contents of a container after one more write to it
Written(f, old) ==
  CASE f = "registers" -> [old EXCEPT !.cond = IntV(old.dest.v + 1),
                                      !.dest = IntV(old.dest.v + 1)]
    [] f = "solver" -> [old EXCEPT !.constraints = Append(@, XEq1)]
    [] OTHER -> old + 1

\* an in-place write to the container behind field f of state k
Write ==
  /\ log.writes < MaxWrites
  /\ \E k \in DOMAIN st, f \in Fields :
       LET w == WriteField(W, k, f, Written(f, ReadNow(k, f)))
       IN /\ heap' = w.heap
          /\ log' = [log EXCEPT !.writes = @ + 1, !.written = k, !.field = f]
  /\ last' = "write"
  /\ UNCHANGED << st, next, stashes, insns_count, LAZY_SOLVES, args, obs,
                  seededHalted, call, slv, gives_up, trans,
                  runVars >>

NextCopy == DoCopy \/ Write

SpecCopy == InitCopy /\ [][NextCopy]_vars

\* ================================================================ claims
InSeq(seq, x) == \E i \in 1 .. Len(seq) : seq[i] = x

\* the `states` property: sum(self.stashes.values(), [])
states ==
  stashes["active"] \o stashes["deadended"] \o stashes["found"]
    \o stashes["pruned"] \o stashes["unsat"] \o stashes["errored"]

StashesOf(k) == {n \in StashNames : InSeq(stashes[n], k)}

\* C1 -- Stash partitioning: at construction and after every step no state
\* object occurs twice in the concatenation of the six stashes, i.e. the
\* stashes are pairwise disjoint and duplicate-free.
C1_StashPartition ==
  \A i, j \in 1 .. Len(states) : i # j => states[i] # states[j]

C1_Witness ==
  /\ last = "step"
  /\ stashes["active"] # << >>
  /\ stashes["errored"] # << >>
  /\ stashes["found"] # << >> \/ stashes["deadended"] # << >>

\* ---- claims about TAC_Jumpi.handler, checked under SpecJumpi
JumpiCalled == call.done /\ call.kind = "JUMPI"
Fallthrough == get_fallthrough_pc(2).pc

\* C2 -- Fork correctness: JUMPI on a fresh unconstrained symbolic condition
\* with a concrete destination returns exactly two successors, the first with
\* pc = destination and cond == 1 among its constraints, the second with
\* pc = fallthrough and cond == 0 among its constraints.
C2_ForkOnFreshSymbol ==
  (JumpiCalled /\ log.cond0 = SymV(X) /\ log.cs0 = << >>
     /\ concrete(log.dest0))
  => /\ call.exc = "None"
     /\ Len(call.succ) = 2
     /\ st[call.succ[1]].pc = log.dest0.v
     /\ InSeq(Constraints(W, call.succ[1]), XEq1)
     /\ st[call.succ[2]].pc = Fallthrough
     /\ InSeq(Constraints(W, call.succ[2]), XEq0)

\* C3 -- Only-true-feasible branch: JUMPI on a symbolic X with the path
\* constraint X != 0 returns exactly one successor, with pc = destination and
\* X == 1 added to its constraints.
C3_OnlyTrueFeasible ==
  (JumpiCalled /\ log.cond0 = SymV(X) /\ log.cs0 = << XNe0 >>
     /\ concrete(log.dest0))
  => /\ call.exc = "None"
     /\ Len(call.succ) = 1
     /\ st[call.succ[1]].pc = log.dest0.v
     /\ Constraints(W, call.succ[1]) = << XNe0, XEq1 >>

C5_ConcreteBranch ==
  (JumpiCalled /\ concrete(log.cond0) /\ concrete(log.dest0))
  => /\ call.exc = "None"
     /\ Len(call.succ) = 1
     /\ st[call.succ[1]].pc =
          IF log.cond0.v # 0 THEN log.dest0.v ELSE Fallthrough

\* C6 (as claimed) -- a state whose handler raised during a step is in the
\* errored stash and in no other, with error set and halt true, whatever
\* find and prune are.
C6_RaisedAlwaysErrored ==
  last = "step" =>
    \A s \in obs.raised :
      /\ StashesOf(s) = {"errored"}
      /\ st[s].error # "None"
      /\ st[s].halt

\* C6 (amended) -- a state whose handler raised during a step has error set
\* and halt true when the step returns; it is in errored and in no other
\* stash unless find accepts it, in which case it is in found (in unsat when
\* its constraints are unsatisfiable) and in no other stash.  Every successor
\* the step collected, from that state or from the others, is binned in
\* exactly one stash.
C6_RaisedErroredUnlessFound ==
  last = "step" =>
    /\ \A s \in obs.raised :
         /\ st[s].error # "None"
         /\ st[s].halt
         /\ InSeq(obs.new_active, s)
         /\ st[s].pc \notin args.find => StashesOf(s) = {"errored"}
         /\ st[s].pc \in args.find =>
              StashesOf(s) =
                IF solver_is_sat(W, s) THEN {"found"} ELSE {"unsat"}
    /\ \A i \in 1 .. Len(obs.new_active) :
         Cardinality(StashesOf(obs.new_active[i])) = 1

C6_Witness ==
  /\ last = "step"
  /\ Len(obs.stepped) >= 2
  /\ \E s \in obs.raised : StashesOf(s) = {"errored"}
  /\ \E i \in 1 .. Len(obs.stepped) : obs.stepped[i] \notin obs.raised

\* C7 -- Halted state is inert: when no state handed to the manager was
\* halted, no state in active has halt set and no handler was ever entered
\* with a halted state.
C7_HaltedInert ==
  ~ seededHalted =>
    /\ \A i \in 1 .. Len(stashes["active"]) : ~ st[stashes["active"][i]].halt
    /\ ~ obs.sawHalted

C7_Witness ==
  /\ last = "step"
  /\ ~ seededHalted
  /\ stashes["active"] # << >>
  /\ \E i \in 1 .. Len(stashes["deadended"]) :
       st[stashes["deadended"][i]].halt

\* C8 -- Clone independence: a write to one of the nine containers of a state
\* leaves every container of the state it was copied from, and of every copy
\* made of it, unchanged; a copy has the xid and pc of its original and a
\* uuid of its own.
Related(a, b) ==
  \/ a \in DOMAIN log.parent /\ log.parent[a] = b
  \/ b \in DOMAIN log.parent /\ log.parent[b] = a

ReadNext(k, f) == heap'[st'[k].ref[f]][f]

C8_CloneIndependence ==
  [][/\ last' = "write" =>
          \A k \in DOMAIN st :
            Related(k, log'.written) =>
              \A f \in Fields : ReadNext(k, f) = ReadNow(k, f)
     /\ last' = "copy" =>
          LET t == next
              s == log'.parent[t]
          IN /\ st'[t].xid = st[s].xid
             /\ st'[t].pc = st[s].pc
             /\ st'[t].uuid # st[s].uuid
             /\ \A f \in Fields : ReadNext(s, f) = ReadNow(s, f)]_vars

\* a write has hit a copy and the copy now differs from its original there
C8_Witness ==
  /\ last = "write"
  /\ log.written \in DOMAIN log.parent
  /\ ReadNow(log.written, log.field)
       # ReadNow(log.parent[log.written], log.field)
  /\ log.field \in {"registers", "solver"}

\* C9 -- Probe cleanliness: after the probes of the JUMPI handler and after
\* any call of is_true / is_false / is_sat / is_unsat the queried solver holds
\* exactly the assertions it held before, with no scope left open, and the
\* constraint list of the state handed to the handler is what it was.
CleanSolver == [assertions |-> log.cs0, scopes |-> << >>]

C9_ProbeCleanliness ==
  /\ slv = CleanSolver
  /\ (call.done /\ call.probed) => call.s = CleanSolver
  /\ Constraints(W, 1) = log.cs0

C9_Witness ==
  /\ JumpiCalled
  /\ call.probed
  /\ log.probes = MaxProbes
  /\ log.cs0 # << >>

\* C10 -- Re-binning postcondition: when a step returns with LAZY_SOLVES off,
\* no state in active is accepted by find, has error or halt set, is accepted
\* by prune or has unsatisfiable constraints; every successor of the step that
\* find accepts and that is satisfiable is in found and not in active; every
\* state in found is satisfiable.
C10_RebinPostcondition ==
  (last = "step" /\ ~ LAZY_SOLVES) =>
    /\ \A i \in 1 .. Len(stashes["active"]) :
         LET s == stashes["active"][i]
         IN /\ st[s].pc \notin args.find
            /\ st[s].error = "None"
            /\ ~ st[s].halt
            /\ st[s].pc \notin args.prune
            /\ solver_is_sat(W, s)
    /\ \A i \in 1 .. Len(obs.new_active) :
         LET s == obs.new_active[i]
         IN (st[s].pc \in args.find /\ solver_is_sat(W, s)) =>
              StashesOf(s) = {"found"}
    /\ \A i \in 1 .. Len(stashes["found"]) :
         solver_is_sat(W, stashes["found"][i])

C10_Witness ==
  /\ last = "step"
  /\ ~ LAZY_SOLVES
  /\ stashes["active"] # << >>
  /\ stashes["unsat"] # << >>
  /\ \E i \in 1 .. Len(obs.new_active) :
       InSeq(stashes["found"], obs.new_active[i])

\* ---- claims about run() and the technique hooks, under SpecRun
StepCalled == insns_count' = insns_count + 1
RunReturned == running = "loop" /\ running' = "returned"

Incomplete == \E i \in 1 .. Len(_techniques) : ~ is_complete(M, i)

\* C11 -- run() stop conditions: run() calls step() only when found is empty
\* or find_all is true, _halt is not set, and active is non-empty or some
\* registered technique is not complete; its loop ends only when one of these
\* fails.
KeepsStepping ==
  /\ ~ (Len(stashes["found"]) > 0 /\ ~ find_all)
  /\ ~ _halt
  /\ Len(stashes["active"]) > 0 \/ Incomplete

C11_RunStopConditions ==
  [][/\ StepCalled => KeepsStepping
     /\ RunReturned => ~ KeepsStepping]_vars

C11_Witness ==
  /\ running = "returned"
  /\ _halt
  /\ stashes["active"] # << >>
  /\ stashes["found"] = << >>
  /\ insns_count >= 2

HookOrder(calls, n, stashes0) ==
  LET A == IF n = 0 THEN stashes0["active"] ELSE calls[n].ret["active"]
      per == 2 * n + 1
  IN /\ Len(calls) >= n
     /\ Len(calls) = n + Len(A) * per
     /\ \A j \in 1 .. n :
          /\ calls[j].hook = "check_stashes"
          /\ calls[j].t = j
          /\ calls[j].arg = IF j = 1 THEN stashes0 ELSE calls[j - 1].ret
     /\ \A k \in 1 .. Len(A) :
          LET b == n + (k - 1) * per
          IN /\ \A j \in 1 .. n :
                  /\ calls[b + j].hook = "check_state"
                  /\ calls[b + j].t = j
                  /\ calls[b + j].arg =
                       IF j = 1 THEN A[k] ELSE calls[b + j - 1].ret
             /\ calls[b + n + 1].hook = "handle"
             /\ \A j \in 1 .. n :
                  /\ calls[b + n + 1 + j].hook = "check_successors"
                  /\ calls[b + n + 1 + j].t = j
                  /\ calls[b + n + 1 + j].arg = calls[b + n + j].ret

C13_HookOrdering ==
  [][StepCalled =>
       /\ HookOrder(hooks', Len(_techniques), stashes)
       /\ \A i \in 1 .. Len(_techniques') :
            /\ _techniques'[i].setups = 1
            /\ ~ _techniques'[i].early]_vars

Handled == {i \in 1 .. Len(hooks) : hooks[i].hook = "handle"}

C13_Witness ==
  /\ last = "step"
  /\ Len(_techniques) >= 2
  /\ _techniques[1].kind = "Reorder"
  /\ Cardinality(Handled) >= 2
  /\ hooks[1].ret # hooks[1].arg

\* C14 -- check_state replacement is honoured: the statement handler is
\* invoked on the state the last technique's check_state returned.
C14_ReplacementHonoured ==
  \A i \in Handled :
    (i > 1 /\ hooks[i - 1].hook = "check_state")
      => hooks[i].arg = hooks[i - 1].ret

\* ---- claims about one step() with no technique registered, under Spec
Elems(seq) == {seq[i] : i \in 1 .. Len(seq)}

RECURSIVE Concat(_)
Concat(ss) == IF ss = << >> THEN << >> ELSE Head(ss) \o Concat(Tail(ss))

Count(seq, x) == Cardinality({i \in 1 .. Len(seq) : seq[i] = x})

Disposed(k) == ReadNow(k, "solver").disposed

\* a move left the states that stay in the source in their order, appended
\* the others to the destination in their source order, touched nothing else
OrderKept(r) ==
  LET left == Elems(r.after[r.from])
  IN /\ r.after[r.from] = SelectSeq(r.before[r.from], LAMBDA s : s \in left)
     /\ r.after[r.to] =
          r.before[r.to]
            \o SelectSeq(r.before[r.from], LAMBDA s : s \notin left)
     /\ \A n \in StashNames \ {r.from, r.to} : r.after[n] = r.before[n]

\* C15 -- Successor ordering: after a step the successors collected are the
\* concatenation, over the pre-step active states in list order, of what each
\* handler returned; active is that list restricted to the states left in it;
\* every move of the re-binning (they start from that list and end in the
\* stashes the step leaves) keeps the order of the states left in its source,
\* appends the moved ones to its destination in source order and leaves the
\* other stashes unchanged.
C15_SuccessorOrdering ==
  last = "step" =>
    /\ obs.handled = obs.stepped
    /\ obs.new_active = Concat(obs.succs)
    /\ stashes["active"] =
         SelectSeq(obs.new_active, LAMBDA s : InSeq(stashes["active"], s))
    /\ obs.moves[1].before["active"] = obs.new_active
    /\ \A i \in 1 .. Len(obs.moves) :
         /\ OrderKept(obs.moves[i])
         /\ i < Len(obs.moves) => obs.moves[i + 1].before = obs.moves[i].after
    /\ obs.moves[Len(obs.moves)].after = stashes

C15_Witness ==
  /\ last = "step"
  /\ Len(obs.handled) >= 2
  /\ stashes["active"] # << >>
  /\ \E i \in 1 .. Len(obs.moves) :
       LET r == obs.moves[i]
       IN /\ r.after[r.from] # r.before[r.from]
          /\ r.after[r.from] # << >>
          /\ Len(r.after[r.to]) >= 2

\* C16 -- Lock-step stepping: a step hands every state of the pre-step active
\* list to its handler exactly once, in no case a state created during that
\* step, and increases insns_count by exactly 1.
C16_LockStep ==
  [][last' = "step" =>
       /\ \A s \in Elems(stashes["active"]) : Count(obs'.handled, s) = 1
       /\ \A s \in Elems(obs'.handled) : s \in Elems(stashes["active"])
       /\ \A s \in DOMAIN st' \ DOMAIN st : ~ InSeq(obs'.handled, s)
       /\ insns_count' = insns_count + 1]_vars

C16_Witness ==
  /\ last = "step"
  /\ Len(obs.stepped) >= 3
  /\ \E i \in 1 .. Len(obs.new_active) : ~ InSeq(obs.stepped, obs.new_active[i])

\* C17 -- Resource disposal is complete and confined: when a step returns,
\* dispose_context has been called on the solver of every state in pruned,
\* unsat and errored, and on the solver of no state in active, found or
\* deadended.
C17_DisposalCompleteConfined ==
  last = "step" =>
    /\ \A s \in Elems(stashes["pruned"] \o stashes["unsat"]
                        \o stashes["errored"]) : Disposed(s) >= 1
    /\ \A s \in Elems(stashes["active"] \o stashes["found"]
                        \o stashes["deadended"]) : Disposed(s) = 0

C17_Witness ==
  /\ last = "step"
  /\ \E s \in Elems(stashes["pruned"] \o stashes["unsat"]
                       \o stashes["errored"]) : Disposed(s) >= 1
  /\ stashes["active"] # << >>
  /\ stashes["found"] # << >> \/ stashes["deadended"] # << >>

\* C18 -- Disposal happens once: a step calls dispose_context only on states
\* that were not yet in pruned, unsat or errored (not yet disposed) before it,
\* so no solver context is ever disposed more than once.
C18_DisposedOnce ==
  /\ \A k \in DOMAIN st : Disposed(k) <= 1
  /\ last = "step" =>
       \A k \in DOMAIN obs.disposed0 :
         Disposed(k) > obs.disposed0[k] => obs.disposed0[k] = 0

\* C19 -- Solver 'unknown' is treated as sat: when z3 answers unknown on the
\* query the JUMPI handler sends for cond == 1 (resp. cond == 0), a successor
\* for that branch is emitted; a branch without successor is one whose
\* condition is unsatisfiable with the path constraints.
TrueEmitted ==
  \E i \in 1 .. Len(call.succ) :
    /\ st[call.succ[i]].pc = log.dest0.v
    /\ InSeq(Constraints(W, call.succ[i]), XEq1)

FalseEmitted ==
  \E i \in 1 .. Len(call.succ) :
    /\ st[call.succ[i]].pc = Fallthrough
    /\ InSeq(Constraints(W, call.succ[i]), XEq0)

C19_UnknownTreatedAsSat ==
  (JumpiCalled /\ log.cond0 = SymV(X) /\ concrete(log.dest0)) =>
    /\ (log.cs0 \o << XNe1 >>) \in gives_up => TrueEmitted
    /\ (log.cs0 \o << XNe0 >>) \in gives_up => FalseEmitted
    /\ ~ TrueEmitted => ~ Sat(log.cs0 \o << XEq1 >>)
    /\ ~ FalseEmitted => ~ Sat(log.cs0 \o << XEq0 >>)

\* C20 -- pc validity: every state held in a stash has a pc that is null or
\* the id of a statement of the CFG, or is halted.
C20_PcValid ==
  \A s \in Elems(states) :
    \/ st[s].pc = NoPc
    \/ st[s].pc \in StmtIds
    \/ st[s].halt

\* ---- further claims about the flow handlers, checked under SpecJumpi
\* the handler, given the same condition and path constraints and a concrete
\* destination, emits a successor at the destination
WouldEmitTrue ==
  LET w0 == Alloc(EmptyWorld,
                  NewState(2, log.cond0, IntV(3), log.cs0, FALSE, 1))
  IN \E r \in {TAC_Jumpi_handler(w0, 1)} :
       \E i \in 1 .. Len(r.succ) : r.w.st[r.succ[i]].pc = 3

\* C24 -- Destination concreteness on every taken branch: no successor of
\* JUMPI has a symbolic value as pc, and whenever the handler would emit a
\* true-branch successor while the destination register is not concrete, it
\* fails with the symbolic-jump-target error.
C24_DestConcreteness ==
  JumpiCalled =>
    /\ \A i \in 1 .. Len(call.succ) : st[call.succ[i]].pc # SymPc
    /\ (~ concrete(log.dest0) /\ WouldEmitTrue) =>
         call.exc = "SymbolicError"

\* ---- claims about the re-binning of step(), checked under Spec
\* the re-bin criteria a state meets when the step returns
MeetsFind(k) == st[k].pc \in args.find
MeetsError(k) == st[k].error # "None"
MeetsHalt(k) == st[k].halt
MeetsPrune(k) == st[k].pc \in args.prune
MeetsUnsat(k) == ~ LAZY_SOLVES /\ ~ solver_is_sat(W, k)

\* the stash named by the first criterion met, in the order find, error,
\* halt, prune, unsat
FirstCriterion(k) ==
  CASE MeetsFind(k) -> "found"
    [] ~ MeetsFind(k) /\ MeetsError(k) -> "errored"
    [] ~ MeetsFind(k) /\ ~ MeetsError(k) /\ MeetsHalt(k) -> "deadended"
    [] ~ MeetsFind(k) /\ ~ MeetsError(k) /\ ~ MeetsHalt(k) /\ MeetsPrune(k)
         -> "pruned"
    [] OTHER -> IF MeetsUnsat(k) THEN "unsat" ELSE "active"

\* C25 (as stated) -- Re-binning precedence: every successor of a step is
\* placed in the stash of the first criterion it meets in the order find,
\* error, halt, prune, unsat; a successor that meets find ends in found.
C25_FindAlwaysFound ==
  last = "step" =>
    \A k \in Elems(obs.new_active) : StashesOf(k) = {FirstCriterion(k)}

\* C25 -- Re-binning precedence: every successor of a step is placed by the
\* first criterion it meets in the order find, error, halt, prune, unsat,
\* except that a successor placed in found whose constraints are
\* unsatisfiable ends in unsat; a satisfiable successor that meets find
\* ends in found whatever else it meets, and one that is errored and halted
\* and does not meet find ends in errored.
C25_RebinPrecedence ==
  last = "step" =>
    \A k \in Elems(obs.new_active) :
      StashesOf(k) =
        {IF MeetsFind(k) /\ ~ solver_is_sat(W, k) THEN "unsat"
         ELSE FirstCriterion(k)}

\* one step binned a halted state that find accepts in found and an errored,
\* halted state in errored
C25_Witness ==
  /\ last = "step"
  /\ \E k \in Elems(obs.new_active) :
       MeetsFind(k) /\ MeetsHalt(k) /\ StashesOf(k) = {"found"}
  /\ \E k \in Elems(obs.new_active) :
       MeetsError(k) /\ MeetsHalt(k) /\ StashesOf(k) = {"errored"}

C23_SetNextPcNavigation ==
  [][last' = "set_next_pc" =>
       LET pc == st[1].pc
           b == BlockOf(pc)
           stmts == Statements(b)
           n == Len(Succ(b))
       IN /\ call'.exc = "None"
          /\ heap' = heap
          /\ st' = [st EXCEPT ![1].pc = st'[1].pc, ![1].halt = st'[1].halt]
          /\ IF pc # stmts[Len(stmts)]
             THEN /\ st'[1].pc = stmts[IndexOf(stmts, pc) + 1]
                  /\ st'[1].halt = st[1].halt
             ELSE CASE n = 0 -> st'[1].halt /\ st'[1].pc = pc
                    [] n = 1 -> /\ st'[1].pc = Statements(Succ(b)[1])[1]
                                /\ st'[1].halt = st[1].halt
                    [] OTHER -> /\ st'[1].pc = Statements(FallthroughEdge(b))[1]
                                /\ st'[1].halt = st[1].halt]_vars

\* set_next_pc has halted the state at the statement without successor
C23_Witness ==
  /\ last = "set_next_pc"
  /\ st[1].halt
  /\ st[1].pc = 5
  /\ Len(Succ(BlockOf(5))) = 0

\* ---- claims about construction, reset and xids, checked under SpecState
\* C21 -- Balance invariant: for every state, however it was constructed,
\* copied or reset, balance is the term start_balance + v, where v is the
\* value its ctx holds for CALLVALUE, or the symbolic CALLVALUE of its xid
\* when its ctx holds none.
C21_BalanceInvariant ==
  \A k \in DOMAIN st :
    LET ctx == Read(W, k, "ctx")
        v == IF "CALLVALUE" \in DOMAIN ctx THEN ctx["CALLVALUE"]
             ELSE BVS(<< "CALLVALUE", ToString(st[k].xid) >>, 256)
    IN st[k].balance = BV_Add(st[k].start_balance, v)

\* the names of the variables that the construction or the last reset of
\* state k has created
CreatedNames(k) ==
  {v.name : v \in UNION {SymbolsIn(W, k, f) : f \in st[k].built}}

\* C22 -- xid scoping: the name of every symbolic variable created while
\* constructing or resetting a state ends in the state's xid, and two states
\* with different xids have no variable name in common.
C22_XidScoping ==
  /\ \A k \in DOMAIN st :
       \A name \in CreatedNames(k) :
         name[Len(name)] = ToString(st[k].xid)
  /\ \A j, k \in DOMAIN st :
       st[j].xid # st[k].xid => CreatedNames(j) \cap CreatedNames(k) = {}

\* C27 -- translate_xid is collision-free and reversible: a call with
\* old_xid = new_xid returns the expression unchanged; a call with
\* old_xid # new_xid maps the distinct variables of the expression to as
\* many distinct variables, and translating its result back from new_xid to
\* old_xid gives the expression again.
C27_TranslateReversible ==
  trans.done =>
    IF trans.old_xid = trans.new_xid
    THEN trans.res = trans.expr
    ELSE /\ Cardinality(get_vars_non_recursive(trans.res))
              = Cardinality(get_vars_non_recursive(trans.expr))
         /\ translate_xid(trans.res, trans.new_xid, trans.old_xid)
              = trans.expr

====
